---- MODULE Spec2Model ----
(***************************************************************************)
(* Model of http2/src/solicit/header.rs: HeaderPart (a byte field),        *)
(* Header (a name/value pair of byte fields) and Headers (an insertion-    *)
(* ordered Vec<Header> with add and first-match get).                      *)
(*                                                                         *)
(* Bytes are integers 0..255, byte fields are sequences of bytes.  A text  *)
(* value (String, &str) is the sequence of its Unicode scalar values; its  *)
(* bytes are its UTF-8 encoding and str::from_utf8 is the validating       *)
(* decoder, so text -> bytes -> text is a real round trip.                 *)
(***************************************************************************)
EXTENDS Integers, Sequences, FiniteSets, TLC

VARIABLES
    headers,    \* Headers.0 : Vec<Header>
    calls,      \* history: the arguments of every add / push made so far
    ret,        \* what the last read-only operation returned, while the
                \* borrow of the list it holds is alive
    mem,        \* buffers (SpecMem): the caller's source buffers and the
                \* buffers behind the Bytes of a Header
    own         \* the Header each thread holds (SpecMem)

vars == <<headers, calls, ret, mem, own>>

(***************************************************************************)
(* Bounds of the model.                                                    *)
(***************************************************************************)
\* Longest list the Headers state machine (Spec) builds.
MaxHeaders == 3
\* Longest list the Header state machine (SpecHeader) builds.
MaxSlots == 2
\* Number of threads that hold and read a Header (SpecMem).
NThreads == 2

(***************************************************************************)
(* UTF-8: String::into_bytes / str::as_bytes and str::from_utf8.           *)
(***************************************************************************)
\* Mutant of EncodeChar: every char below 256 is written as one byte (Latin-1).
EncodeCharLatin1(c) ==
    IF c < 256 THEN <<c>>
    ELSE IF c < 2048 THEN <<192 + (c \div 64), 128 + (c % 64)>>
    ELSE IF c < 65536 THEN
        <<224 + (c \div 4096), 128 + ((c \div 64) % 64), 128 + (c % 64)>>
    ELSE <<240 + (c \div 262144), 128 + ((c \div 4096) % 64),
           128 + ((c \div 64) % 64), 128 + (c % 64)>>

\* char::encode_utf8 : the UTF-8 bytes of one scalar value.
EncodeChar(c) ==
    IF c < 128 THEN <<c>>
    ELSE IF c < 2048 THEN <<192 + (c \div 64), 128 + (c % 64)>>
    ELSE IF c < 65536 THEN
        <<224 + (c \div 4096), 128 + ((c \div 64) % 64), 128 + (c % 64)>>
    ELSE <<240 + (c \div 262144), 128 + ((c \div 4096) % 64),
           128 + ((c \div 64) % 64), 128 + (c % 64)>>

RECURSIVE StrBytes(_)
\* The byte content of a text value: the concatenated encodings of its chars.
StrBytes(s) ==
    IF s = <<>> THEN <<>> ELSE EncodeChar(Head(s)) \o StrBytes(Tail(s))

\* A UTF-8 continuation byte, 10xxxxxx.
IsCont(b) == b >= 128 /\ b <= 191

\* Width of the sequence a lead byte announces; 0 for a byte that cannot lead.
Utf8Width(b) ==
    IF b < 128 THEN 1
    ELSE IF b >= 194 /\ b <= 223 THEN 2
    ELSE IF b >= 224 /\ b <= 239 THEN 3
    ELSE IF b >= 240 /\ b <= 244 THEN 4
    ELSE 0

\* The second byte of a multi-byte sequence is in the range its lead allows
\* (no overlong forms, no surrogates, nothing above U+10FFFF).
SecondOk(lead, b) ==
    IF lead = 224 THEN b >= 160 /\ b <= 191
    ELSE IF lead = 237 THEN b >= 128 /\ b <= 159
    ELSE IF lead = 240 THEN b >= 144 /\ b <= 191
    ELSE IF lead = 244 THEN b >= 128 /\ b <= 143
    ELSE IsCont(b)

RECURSIVE Utf8Decode(_, _, _)
\* str::from_utf8 from position i with the chars acc decoded so far.
Utf8Decode(b, i, acc) ==
    IF i > Len(b) THEN [ok |-> TRUE, str |-> acc]
    ELSE LET w == Utf8Width(b[i]) IN
        IF w = 0 \/ i + w - 1 > Len(b) THEN [ok |-> FALSE, str |-> <<>>]
        ELSE IF w = 1 THEN Utf8Decode(b, i + 1, Append(acc, b[i]))
        ELSE IF ~SecondOk(b[i], b[i + 1]) THEN [ok |-> FALSE, str |-> <<>>]
        ELSE IF w = 2 THEN
            Utf8Decode(b, i + 2,
                Append(acc, (b[i] - 192) * 64 + (b[i + 1] - 128)))
        ELSE IF ~IsCont(b[i + 2]) THEN [ok |-> FALSE, str |-> <<>>]
        ELSE IF w = 3 THEN
            Utf8Decode(b, i + 3,
                Append(acc, (b[i] - 224) * 4096 + (b[i + 1] - 128) * 64
                            + (b[i + 2] - 128)))
        ELSE IF ~IsCont(b[i + 3]) THEN [ok |-> FALSE, str |-> <<>>]
        ELSE
            Utf8Decode(b, i + 4,
                Append(acc, (b[i] - 240) * 262144 + (b[i + 1] - 128) * 4096
                            + (b[i + 2] - 128) * 64 + (b[i + 3] - 128)))

\* str::from_utf8(bytes) : Ok(text) or Err.
FromUtf8(b) == Utf8Decode(b, 1, <<>>)

(***************************************************************************)
(* HeaderPart(Bytes) and its conversions.  A source is a record            *)
(* [kind, data]: data is a byte sequence for the byte kinds and a text     *)
(* value for the text kinds.                                               *)
(***************************************************************************)
ByteKinds == {"Vec", "Slice", "Array", "CowOwned", "CowBorrowed"}
TextKinds == {"String", "Str", "CowStrOwned", "CowStrBorrowed"}

\* Largest N with an impl From<&[u8; N]>.
MaxArrayLen == 23

\* Bytes::from(Vec<u8>) : takes the vector's bytes as they are.
BytesFromVec(vec) == vec

\* Bytes::from(&[u8]) : copies the slice byte by byte.
BytesFromSlice(buf) == [i \in 1..Len(buf) |-> buf[i]]

\* impl From<Vec<u8>> for HeaderPart
FromVec(vec) == BytesFromVec(vec)

\* Mutant of FromSlice: the bytes are required to be text, and the
\* conversion fails (shown as the impossible byte -1) when they are not.
FromSliceChecked(buf) ==
    IF FromUtf8(buf).ok THEN BytesFromSlice(buf) ELSE <<-1>>

\* impl From<&[u8]> for HeaderPart
FromSlice(buf) == BytesFromSlice(buf)

\* impl From<Cow<[u8]>> for HeaderPart : cow.into_owned() is the owned
\* vector itself, or a copy of the borrowed slice.
FromCow(owned, data) ==
    BytesFromVec(IF owned THEN data ELSE [i \in 1..Len(data) |-> data[i]])

\* impl From<&[u8; N]> for HeaderPart : buf[..].into()
FromArray(buf) == FromSlice(SubSeq(buf, 1, Len(buf)))

\* impl From<String> for HeaderPart
FromString(s) == FromVec(StrBytes(s))

\* impl From<&str> for HeaderPart
FromStr(s) == FromSlice(StrBytes(s))

\* impl From<Cow<str>> for HeaderPart : cow.into_owned() is a String.
FromCowStr(s) == FromString(s)

\* name.into() / value.into() : the impl the source's type selects.
IntoPart(src) ==
    CASE src.kind = "Vec" -> FromVec(src.data)
      [] src.kind = "Slice" -> FromSlice(src.data)
      [] src.kind = "Array" -> FromArray(src.data)
      [] src.kind = "CowOwned" -> FromCow(TRUE, src.data)
      [] src.kind = "CowBorrowed" -> FromCow(FALSE, src.data)
      [] src.kind = "String" -> FromString(src.data)
      [] src.kind = "Str" -> FromStr(src.data)
      [] src.kind = "CowStrOwned" -> FromCowStr(src.data)
      [] src.kind = "CowStrBorrowed" -> FromCowStr(src.data)

\* The types a source may have: arrays exist only for lengths 0..23.
IsSource(src) ==
    /\ src.kind \in ByteKinds \cup TextKinds
    /\ src.kind = "Array" => Len(src.data) <= MaxArrayLen

(***************************************************************************)
(* impl fmt::Debug for HeaderPart.  The rendering is the sequence of the   *)
(* chars written to the formatter.                                         *)
(***************************************************************************)
\* First byte of the range written literally (0x20).
PrintableFrom == 32
\* First byte above that range (0x7f).
PrintableBelow == 127

\* One digit of {:x}: 0-9, then lowercase a-f.
HexChar(d) == IF d < 10 THEN 48 + d ELSE 97 + (d - 10)

RECURSIVE LowerHex(_)
\* {:x} : the hex digits of n, most significant first, no leading zeros.
LowerHex(n) ==
    IF n < 16 THEN <<HexChar(n)>>
    ELSE LowerHex(n \div 16) \o <<HexChar(n % 16)>>

\* {:02x} : {:x} filled with zeros on the left to a width of two.
LowerHex02(n) ==
    LET d == LowerHex(n) IN IF Len(d) < 2 THEN <<48>> \o d ELSE d

\* Mutant of DebugByte: the quote and the backslash escaped with a backslash.
DebugByteQuoted(c) ==
    IF c = 34 \/ c = 92 THEN <<92, c>>
    ELSE IF c >= PrintableFrom /\ c < PrintableBelow THEN <<c>>
    ELSE <<92, 120>> \o LowerHex02(c)

\* Mutant of DebugByte: the upper test written c <= 0x7f.
DebugByteIncl7f(c) ==
    IF c >= PrintableFrom /\ c <= PrintableBelow THEN <<c>>
    ELSE <<92, 120>> \o LowerHex02(c)

\* The body of the loop: the byte as a char, or \x and two hex digits.
DebugByte(c) ==
    IF c >= PrintableFrom /\ c < PrintableBelow THEN <<c>>
    ELSE <<92, 120>> \o LowerHex02(c)

RECURSIVE DebugLoop(_, _)
\* for &c in u8a { ... } from index i.
DebugLoop(b, i) ==
    IF i > Len(b) THEN <<>> ELSE DebugByte(b[i]) \o DebugLoop(b, i + 1)

\* <HeaderPart as Debug>::fmt : b" , the bytes, " .
HeaderPartDebug(part) == <<98, 34>> \o DebugLoop(part, 1) \o <<34>>

(***************************************************************************)
(* Header                                                                  *)
(***************************************************************************)
\* Mutant of HeaderNew: the two fields filled the wrong way round.
HeaderNewSwapped(name, value) ==
    [name |-> IntoPart(value), value |-> IntoPart(name)]

\* Header::new(name, value)
HeaderNew(name, value) == [name |-> IntoPart(name), value |-> IntoPart(value)]

\* Mutant of HeaderFromPair: the tuple read in the wrong order.
HeaderFromPairSwapped(p) == HeaderNew(p[2], p[1])

\* impl From<(N, V)> for Header : Header::new(p.0, p.1)
HeaderFromPair(p) == HeaderNew(p[1], p[2])

\* Header::name(&self)
HeaderName(h) == h.name

\* Header::value(&self)
HeaderValue(h) == h.value

\* Mutant of BytesEq: the bytes compared pairwise without the length test.
BytesEqPrefix(a, b) ==
    \A i \in 1..(IF Len(a) < Len(b) THEN Len(a) ELSE Len(b)) : a[i] = b[i]

\* Mutant of BytesEq: ASCII letters compared without regard to case.
BytesEqIgnoreCase(a, b) ==
    LET lower(c) == IF c >= 65 /\ c <= 90 THEN c + 32 ELSE c
    IN Len(a) = Len(b) /\ \A i \in 1..Len(a) : lower(a[i]) = lower(b[i])

\* <Bytes as PartialEq>::eq : equal length and equal bytes at every index.
BytesEq(a, b) == Len(a) = Len(b) /\ \A i \in 1..Len(a) : a[i] = b[i]

\* Mutant of HeaderEq: only the names compared.
HeaderEqNameOnly(a, b) == BytesEq(a.name, b.name)

\* #[derive(PartialEq)] for Header : field by field, name then value.
HeaderEq(a, b) == BytesEq(a.name, b.name) /\ BytesEq(a.value, b.value)

\* #[derive(Clone)] for Header : each field cloned.
HeaderClone(h) == [name |-> h.name, value |-> h.value]

\* misc::BsDebug : the byte-string rendering of a byte slice, by the same
\* rule as HeaderPart's.
BsDebug(b) == <<98, 34>> \o DebugLoop(b, 1) \o <<34>>

\* <Header as Debug>::fmt : Header { name: .., value: .. }
HeaderDebug(h) ==
    <<"Header { name: ", BsDebug(HeaderName(h)), ", value: ",
      BsDebug(HeaderValue(h)), " }">>

(***************************************************************************)
(* Headers                                                                 *)
(***************************************************************************)
\* Headers::new() : Default::default(), the empty vector.
HeadersNew == <<>>

\* Mutant of HeadersAdd: the new entry put in front of the list.
HeadersAddFront(list, name, value) ==
    <<HeaderNew([kind |-> "Str", data |-> name],
                [kind |-> "Str", data |-> value])>> \o list

\* Mutant of HeadersAdd: a map-like add that overwrites the value of an
\* entry already holding the name instead of appending a second entry.
HeadersAddDedup(list, name, value) ==
    LET h == HeaderNew([kind |-> "Str", data |-> name],
                       [kind |-> "Str", data |-> value])
        S == {i \in 1..Len(list) : list[i].name = h.name}
    IN IF S = {} THEN Append(list, h)
       ELSE [i \in 1..Len(list) |-> IF i \in S THEN h ELSE list[i]]

\* Headers::add(&mut self, name, value) : push(Header::new(name, value)).
HeadersAdd(list, name, value) ==
    Append(list, HeaderNew([kind |-> "Str", data |-> name],
                           [kind |-> "Str", data |-> value]))

\* self.0.push(header) on the public vector.
HeadersPush(list, h) == Append(list, h)

\* Mutant of FilterNext: .last() in place of .next().
FilterLast(list, nameBytes, i) ==
    LET S == {j \in i..Len(list) : BytesEq(HeaderName(list[j]), nameBytes)}
    IN IF S = {} THEN 0 ELSE CHOOSE j \in S : \A k \in S : k <= j

RECURSIVE FilterNext(_, _, _)
\* self.0.iter().filter(|h| h.name() == name.as_bytes()).next() from index i:
\* the index of the first entry that passes the filter, 0 for None.
FilterNext(list, nameBytes, i) ==
    IF i > Len(list) THEN 0
    ELSE IF BytesEq(HeaderName(list[i]), nameBytes) THEN i
    ELSE FilterNext(list, nameBytes, i + 1)

\* Mutant of HeadersGet: the first unwrap replaced by a silent default.
HeadersGetDefault(list, name) ==
    LET i == FilterNext(list, StrBytes(name), 1) IN
    IF i = 0 THEN [outcome |-> "ok", cause |-> "", value |-> <<>>]
    ELSE LET r == FromUtf8(HeaderValue(list[i])) IN
        IF r.ok THEN [outcome |-> "ok", cause |-> "", value |-> r.str]
        ELSE [outcome |-> "panic", cause |-> "invalid_utf8", value |-> <<>>]

\* Mutant of HeadersGet: a lossy decode (U+FFFD) in place of the second unwrap.
HeadersGetLossy(list, name) ==
    LET i == FilterNext(list, StrBytes(name), 1) IN
    IF i = 0 THEN [outcome |-> "panic", cause |-> "no_match", value |-> <<>>]
    ELSE LET r == FromUtf8(HeaderValue(list[i])) IN
        IF r.ok THEN [outcome |-> "ok", cause |-> "", value |-> r.str]
        ELSE [outcome |-> "ok", cause |-> "", value |-> <<65533>>]

\* Headers::get(&self, name) : both unwraps, with the outcome made explicit.
HeadersGet(list, name) ==
    LET i == FilterNext(list, StrBytes(name), 1) IN
    IF i = 0 THEN [outcome |-> "panic", cause |-> "no_match", value |-> <<>>]
    ELSE LET r == FromUtf8(HeaderValue(list[i])) IN
        IF r.ok THEN [outcome |-> "ok", cause |-> "", value |-> r.str]
        ELSE [outcome |-> "panic", cause |-> "invalid_utf8", value |-> <<>>]

(***************************************************************************)
(* Inputs of the Headers state machine.                                    *)
(***************************************************************************)
\* "a", "ab", "e-acute"
TextNames == {<<97>>, <<97, 98>>, <<233>>}
\* "", "1", "e-acute euro"
TextValues == {<<>>, <<49>>, <<233, 8364>>}
\* b"a", the single byte 0xff
ByteNames == {<<97>>, <<255>>}
\* b"1", the invalid byte 0xff, a truncated three-byte sequence
ByteValues == {<<49>>, <<255>>, <<226, 130>>}
\* names looked up: the added ones, "A" and "z" (never added), U+00FF (whose
\* bytes are c3 bf, not ff)
GetNames == TextNames \cup {<<65>>, <<122>>, <<255>>}

NoRet == [op |-> "none", name |-> <<>>, outcome |-> "", cause |-> "",
          value |-> <<>>]

\* The buffers: sn and sv are the caller's source buffers of the name and
\* the value, hn and hv the buffers behind a Header's name and value.
BufIds == {"sn", "sv", "hn", "hv"}

Threads == 1..NThreads

\* A buffer that is not allocated.
FreeBuf == [kind |-> "none", data |-> <<>>, rc |-> 0, live |-> FALSE]

\* A thread that holds no Header.  st is "held" for a whole Header,
\* "clone_v" when the name has been cloned from thread from and the value
\* not yet, "drop_v" when the name has been dropped and the value not yet.
NoHeader == [st |-> "none", name |-> "", value |-> "", from |-> 0]

Init ==
    /\ headers = HeadersNew
    /\ calls = <<>>
    /\ ret = NoRet
    /\ mem = [id \in BufIds |-> FreeBuf]
    /\ own = [t \in Threads |-> NoHeader]

\* headers.add(name, value).  The &mut borrow ends the life of any &str a
\* previous get returned, so ret is cleared.
Add(name, value) ==
    /\ Len(headers) < MaxHeaders
    /\ headers' = HeadersAdd(headers, name, value)
    /\ calls' = Append(calls, [op |-> "add", name |-> name, value |-> value,
                               ntext |-> TRUE, vtext |-> TRUE])
    /\ ret' = NoRet
    /\ UNCHANGED <<mem, own>>

\* headers.0.push(Header::new(name, value)) with byte-slice sources.
Push(name, value) ==
    /\ Len(headers) < MaxHeaders
    /\ headers' = HeadersPush(headers,
                      HeaderNew([kind |-> "Slice", data |-> name],
                                [kind |-> "Slice", data |-> value]))
    /\ calls' = Append(calls, [op |-> "push", name |-> name, value |-> value,
                               ntext |-> FALSE, vtext |-> FALSE])
    /\ ret' = NoRet
    /\ UNCHANGED <<mem, own>>

\* Mutant of Get: a lookup that takes the entry it found out of the list.
GetTake(name) ==
    /\ LET r == HeadersGet(headers, name)
           i == FilterNext(headers, StrBytes(name), 1)
       IN /\ ret' = [op |-> "get", name |-> name, outcome |-> r.outcome,
                     cause |-> r.cause, value |-> r.value]
          /\ headers' = IF i = 0 THEN headers
                        ELSE SubSeq(headers, 1, i - 1)
                             \o SubSeq(headers, i + 1, Len(headers))
          /\ calls' = IF i = 0 THEN calls
                      ELSE SubSeq(calls, 1, i - 1)
                           \o SubSeq(calls, i + 1, Len(calls))
    /\ UNCHANGED <<mem, own>>

\* headers.get(name) : returns the text or panics; the list is only borrowed.
Get(name) ==
    /\ LET r == HeadersGet(headers, name) IN
        ret' = [op |-> "get", name |-> name, outcome |-> r.outcome,
                cause |-> r.cause, value |-> r.value]
    /\ UNCHANGED <<headers, calls, mem, own>>

Next ==
    \/ \E n \in TextNames, v \in TextValues : Add(n, v)
    \/ \E n \in ByteNames, v \in ByteValues : Push(n, v)
    \/ \E n \in GetNames : Get(n)

Spec == Init /\ [][Next]_vars

(***************************************************************************)
(* SpecPart: the conversions, Header::new, equality of byte fields and     *)
(* the Debug rendering, applied to every source type and content below.    *)
(* These are pure functions: a behaviour applies one of them to one input, *)
(* and ret holds what it returned.                                         *)
(***************************************************************************)
\* A 23-byte and a 24-byte content: the longest array type and one byte more.
Long23 == [i \in 1..23 |-> 64 + i]
Long24 == [i \in 1..24 |-> 64 + i]

PartBytes ==
    {<<>>, <<97>>, <<255>>, <<195, 191>>, <<31, 32, 126, 127>>,
     <<0, 10, 128, 34, 92>>, <<0>>, <<92, 120, 48, 48>>, Long23, Long24}

\* "", "a", U+00FF, "e-acute euro U+1F600", "DEL ~"
PartTexts == {<<>>, <<97>>, <<255>>, <<233, 8364, 128512>>, <<127, 126>>}

\* One &[u8; N] for every N that has an impl, and one for N = 24.
ArraySources ==
    {[kind |-> "Array", data |-> [i \in 1..n |-> 64 + i]] :
        n \in 0..(MaxArrayLen + 1)}

PartSources ==
    {src \in [kind : ByteKinds, data : PartBytes]
              \cup [kind : TextKinds, data : PartTexts]
              \cup ArraySources : IsSource(src)}

\* let h = Header::new(nsrc, vsrc); then h.name() and h.value() are read.
Construct(nsrc, vsrc) ==
    /\ ret = NoRet
    /\ LET h == HeaderNew(nsrc, vsrc) IN
        ret' = [op |-> "new", nsrc |-> nsrc, vsrc |-> vsrc,
                name |-> HeaderName(h), value |-> HeaderValue(h)]
    /\ UNCHANGED <<headers, calls, mem, own>>

\* let h = Header::from((nsrc, vsrc)); h is read and compared with
\* Header::new(nsrc, vsrc).
ConstructPair(nsrc, vsrc) ==
    /\ ret = NoRet
    /\ LET h == HeaderFromPair(<<nsrc, vsrc>>) IN
        ret' = [op |-> "pair", nsrc |-> nsrc, vsrc |-> vsrc,
                name |-> HeaderName(h), value |-> HeaderValue(h),
                same |-> HeaderEq(h, HeaderNew(nsrc, vsrc))]
    /\ UNCHANGED <<headers, calls, mem, own>>

\* The byte fields of two sources compared (the comparison Header's derived
\* PartialEq makes on each of its fields).
ComparePart(a, b) ==
    /\ ret = NoRet
    /\ ret' = [op |-> "parteq", a |-> a, b |-> b,
               result |-> BytesEq(IntoPart(a), IntoPart(b))]
    /\ UNCHANGED <<headers, calls, mem, own>>

\* format!("{:?}", HeaderPart::from(src))
DebugPart(src) ==
    /\ ret = NoRet
    /\ ret' = [op |-> "debug", src |-> src,
               text |-> HeaderPartDebug(IntoPart(src))]
    /\ UNCHANGED <<headers, calls, mem, own>>

NextPart ==
    \/ ret = NoRet /\ \E n \in PartSources, v \in PartSources : Construct(n, v)
    \/ ret = NoRet /\ \E n \in PartSources, v \in PartSources :
                        ConstructPair(n, v)
    \/ ret = NoRet /\ \E a \in PartSources, b \in PartSources :
                        ComparePart(a, b)
    \/ ret = NoRet /\ \E src \in PartSources : DebugPart(src)

SpecPart == Init /\ [][NextPart]_vars

(***************************************************************************)
(* SpecHeader: Header values owned by a Headers list, and every operation  *)
(* the code offers on them and on the list.                                *)
(***************************************************************************)
HdrSources ==
    [kind : ByteKinds, data : {<<97>>, <<255>>}]
        \cup [kind : TextKinds, data : {<<97>>, <<255>>}]

\* headers.0.push(Header::new(nsrc, vsrc)) with sources of any type.
NewH(nsrc, vsrc) ==
    /\ Len(headers) < MaxSlots
    /\ headers' = HeadersPush(headers, HeaderNew(nsrc, vsrc))
    /\ calls' = Append(calls, [op |-> "new", name |-> nsrc.data,
                               value |-> vsrc.data,
                               ntext |-> nsrc.kind \in TextKinds,
                               vtext |-> vsrc.kind \in TextKinds])
    /\ ret' = NoRet
    /\ UNCHANGED <<mem, own>>

\* headers.add(name, value)
AddH(name, value) ==
    /\ Len(headers) < MaxSlots
    /\ headers' = HeadersAdd(headers, name, value)
    /\ calls' = Append(calls, [op |-> "add", name |-> name, value |-> value,
                               ntext |-> TRUE, vtext |-> TRUE])
    /\ ret' = NoRet
    /\ UNCHANGED <<mem, own>>

\* let c = headers.0[i].clone(); headers.0.push(c)
CloneH(i) ==
    /\ Len(headers) < MaxSlots
    /\ headers' = HeadersPush(headers, HeaderClone(headers[i]))
    /\ calls' = Append(calls, [calls[i] EXCEPT !.op = "clone"])
    /\ ret' = NoRet
    /\ UNCHANGED <<mem, own>>

\* headers.0[i].name()
ReadName(i) ==
    /\ ret' = [op |-> "name", idx |-> i, bytes |-> HeaderName(headers[i])]
    /\ UNCHANGED <<headers, calls, mem, own>>

\* headers.0[i].value()
ReadValue(i) ==
    /\ ret' = [op |-> "value", idx |-> i, bytes |-> HeaderValue(headers[i])]
    /\ UNCHANGED <<headers, calls, mem, own>>

\* headers.0[a] == headers.0[b]
EqH(a, b) ==
    /\ ret' = [op |-> "eq", a |-> a, b |-> b,
               result |-> HeaderEq(headers[a], headers[b])]
    /\ UNCHANGED <<headers, calls, mem, own>>

\* format!("{:?}", headers.0[i])
DebugH(i) ==
    /\ ret' = [op |-> "hdebug", idx |-> i, text |-> HeaderDebug(headers[i])]
    /\ UNCHANGED <<headers, calls, mem, own>>

NextHeader ==
    \/ \E n \in HdrSources, v \in HdrSources : NewH(n, v)
    \/ \E n \in {<<97>>, <<255>>}, v \in {<<97>>, <<255>>} : AddH(n, v)
    \/ \E i \in 1..Len(headers) : CloneH(i)
    \/ \E i \in 1..Len(headers) : ReadName(i)
    \/ \E i \in 1..Len(headers) : ReadValue(i)
    \/ \E a \in 1..Len(headers), b \in 1..Len(headers) : EqH(a, b)
    \/ \E i \in 1..Len(headers) : DebugH(i)
    \/ \E n \in {<<97>>, <<255>>, <<122>>} : Get(n)

SpecHeader == Init /\ [][NextHeader]_vars

(***************************************************************************)
(* SpecMem: the buffers.  The caller keeps the buffers a borrowed source   *)
(* points into and may overwrite or release them once Header::new has      *)
(* returned; Bytes owns a reference-counted buffer.                        *)
(***************************************************************************)
\* The source types that borrow the caller's buffer: &[u8], &[u8; N], &str.
BorrowedKinds == {"Slice", "Array", "Str"}

MemSources ==
    {src \in [kind : ByteKinds, data : {<<97>>, <<255>>}]
              \cup [kind : TextKinds, data : {<<97>>, <<255>>}] :
        src.kind \in BorrowedKinds}

\* The contents the caller may leave in a source buffer afterwards.
Scribbles == {<<122>>}

\* Mutant of BuildPart: the Bytes keeps pointing into the borrowed buffer.
BuildPartAlias(m, src, dst) == [mem |-> m, buf |-> src]

\* source.into().0 for a borrowed source in buffer src: Bytes::from copies
\* the bytes into the fresh buffer dst, which the new Bytes alone refers to.
BuildPart(m, src, dst) ==
    [mem |-> [m EXCEPT ![dst] =
                [kind |-> "Bytes",
                 data |-> IntoPart([kind |-> m[src].kind, data |-> m[src].data]),
                 rc |-> 1, live |-> TRUE]],
     buf |-> dst]

\* The bytes a buffer holds.
BufBytes(b) == IF b.kind \in TextKinds THEN StrBytes(b.data) ELSE b.data

\* What reading buffer id as &[u8] can yield: its bytes; for a released
\* buffer the read is undefined and may yield the old bytes or others.
View(m, id) ==
    IF m[id].live THEN {BufBytes(m[id])}
    ELSE {BufBytes(m[id]), <<>>, <<0>>}

\* Mutant of BytesClone: the handle copied without counting the reference.
BytesCloneUncounted(m, id) == m

\* <Bytes as Clone>::clone : one more reference to the same buffer.
BytesClone(m, id) == [m EXCEPT ![id].rc = @ + 1]

\* <Bytes as Drop>::drop : one reference fewer; the last one releases the
\* buffer.
BytesDrop(m, id) ==
    IF m[id].rc <= 1 THEN [m EXCEPT ![id].rc = 0, ![id].live = FALSE]
    ELSE [m EXCEPT ![id].rc = @ - 1]

\* let h = Header::new(name, value) with name and value borrowed from the
\* caller's buffers sn and sv; thread 1 holds h.
MBuild(nsrc, vsrc) ==
    /\ calls = <<>>
    /\ LET m0 == [mem EXCEPT
                    !["sn"] = [kind |-> nsrc.kind, data |-> nsrc.data,
                               rc |-> 0, live |-> TRUE],
                    !["sv"] = [kind |-> vsrc.kind, data |-> vsrc.data,
                               rc |-> 0, live |-> TRUE]]
           n == BuildPart(m0, "sn", "hn")
           v == BuildPart(n.mem, "sv", "hv")
       IN /\ mem' = v.mem
          /\ own' = [own EXCEPT ![1] =
                        [st |-> "held", name |-> n.buf, value |-> v.buf,
                         from |-> 0]]
    /\ calls' = <<[op |-> "new", name |-> nsrc.data, value |-> vsrc.data,
                   ntext |-> nsrc.kind \in TextKinds,
                   vtext |-> vsrc.kind \in TextKinds]>>
    /\ ret' = NoRet
    /\ UNCHANGED headers

\* The caller writes other bytes into a source buffer, the borrow being over.
SrcOverwrite(id, data) ==
    /\ calls # <<>>
    /\ mem[id].live /\ mem[id].kind \in BorrowedKinds
    /\ mem[id].data # data
    /\ mem' = [mem EXCEPT ![id].data = data]
    /\ ret' = NoRet
    /\ UNCHANGED <<headers, calls, own>>

\* The caller releases a source buffer.
SrcRelease(id) ==
    /\ calls # <<>>
    /\ mem[id].live /\ mem[id].kind \in BorrowedKinds
    /\ mem' = [mem EXCEPT ![id].live = FALSE]
    /\ ret' = NoRet
    /\ UNCHANGED <<headers, calls, own>>

\* Thread t reads h.name() and h.value() of the Header it holds.
MRead(t) ==
    /\ own[t].st = "held"
    /\ \E n \in View(mem, own[t].name), v \in View(mem, own[t].value) :
          ret' = [op |-> "mread", thread |-> t, name |-> n, value |-> v]
    /\ UNCHANGED <<headers, calls, mem, own>>

\* Thread u starts h.clone() of the Header thread t holds: name.clone().
MCloneName(t, u) ==
    /\ own[t].st = "held" /\ own[u].st = "none"
    /\ mem' = BytesClone(mem, own[t].name)
    /\ own' = [own EXCEPT ![u] = [st |-> "clone_v", name |-> own[t].name,
                                  value |-> "", from |-> t]]
    /\ UNCHANGED <<headers, calls, ret>>

\* Thread u finishes the clone: value.clone(); it now holds a Header.
MCloneValue(u) ==
    /\ own[u].st = "clone_v"
    /\ mem' = BytesClone(mem, own[own[u].from].value)
    /\ own' = [own EXCEPT ![u] = [st |-> "held", name |-> own[u].name,
                                  value |-> own[own[u].from].value,
                                  from |-> 0]]
    /\ UNCHANGED <<headers, calls, ret>>

\* Thread t starts dropping its Header: the name field is dropped.  A
\* Header that is being cloned is borrowed and cannot be dropped.
MDropName(t) ==
    /\ own[t].st = "held"
    /\ \A u \in Threads : ~(own[u].st = "clone_v" /\ own[u].from = t)
    /\ mem' = BytesDrop(mem, own[t].name)
    /\ own' = [own EXCEPT ![t].st = "drop_v"]
    /\ UNCHANGED <<headers, calls, ret>>

\* Thread t finishes the drop: the value field is dropped.
MDropValue(t) ==
    /\ own[t].st = "drop_v"
    /\ mem' = BytesDrop(mem, own[t].value)
    /\ own' = [own EXCEPT ![t] = NoHeader]
    /\ UNCHANGED <<headers, calls, ret>>

\* Thread t compares the Header it holds with the one thread u holds.
MEq(t, u) ==
    /\ own[t].st = "held" /\ own[u].st = "held"
    /\ \E an \in View(mem, own[t].name), av \in View(mem, own[t].value),
          bn \in View(mem, own[u].name), bv \in View(mem, own[u].value) :
          ret' = [op |-> "meq", thread |-> t, other |-> u,
                  result |-> HeaderEq([name |-> an, value |-> av],
                                      [name |-> bn, value |-> bv])]
    /\ UNCHANGED <<headers, calls, mem, own>>

NextMem ==
    \/ \E n \in MemSources, v \in MemSources : MBuild(n, v)
    \/ \E id \in {"sn", "sv"}, d \in Scribbles : SrcOverwrite(id, d)
    \/ \E id \in {"sn", "sv"} : SrcRelease(id)
    \/ \E t \in Threads : MRead(t)
    \/ \E t \in Threads, u \in Threads : MCloneName(t, u)
    \/ \E u \in Threads : MCloneValue(u)
    \/ \E t \in Threads : MDropName(t)
    \/ \E t \in Threads : MDropValue(t)
    \/ \E t \in Threads, u \in Threads : t # u /\ MEq(t, u)

SpecMem == Init /\ [][NextMem]_vars

(***************************************************************************)
(* Reference values the properties are stated against.                     *)
(***************************************************************************)
\* The UTF-8 encoding of each char the inputs use, written out byte by byte.
RefChar(c) ==
    CASE c = 233 -> <<195, 169>>
      [] c = 255 -> <<195, 191>>
      [] c = 8364 -> <<226, 130, 172>>
      [] c = 128512 -> <<240, 159, 152, 128>>
      [] OTHER -> <<c>>

RECURSIVE RefBytes(_)
\* The UTF-8 encoding of a text value, by the table above.
RefBytes(s) == IF s = <<>> THEN <<>> ELSE RefChar(Head(s)) \o RefBytes(Tail(s))

\* Every text value the inputs can put in a header.
AllTexts == TextNames \cup TextValues \cup GetNames \cup PartTexts

\* b is valid UTF-8: it is the encoding of some text value.
IsText(b) == \E s \in AllTexts : RefBytes(s) = b

\* The indices of the entries whose name is byte-equal to the text n.
Matches(n) == {i \in 1..Len(headers) : headers[i].name = RefBytes(n)}

\* The lowest of them.
Lowest(n) == CHOOSE i \in Matches(n) : \A j \in Matches(n) : i <= j

(***************************************************************************)
(* C1: whenever get(n) is called and the first entry named n holds valid   *)
(* UTF-8, get returns the value of that lowest-index entry, never the      *)
(* value of a later entry with the same name.                              *)
(***************************************************************************)
C1_GetReturnsFirstMatch ==
    (ret.op = "get" /\ Matches(ret.name) # {}
        /\ IsText(headers[Lowest(ret.name)].value))
    => /\ ret.outcome = "ok"
       /\ RefBytes(ret.value) = headers[Lowest(ret.name)].value

\* get("a") answered "1" from entry 1 although entry 3 is also named "a" and
\* holds another value.
C1_Witness ==
    /\ ret.op = "get" /\ ret.name = <<97>> /\ ret.outcome = "ok"
    /\ Len(headers) = 3
    /\ headers[1].name = <<97>> /\ headers[1].value = <<49>>
    /\ headers[2].name = <<97, 98>>
    /\ headers[3].name = <<97>> /\ headers[3].value = <<195, 169, 226, 130, 172>>
    /\ ret.value = <<49>>

(***************************************************************************)
(* C2: the list is exactly the arguments of the add/push calls made so     *)
(* far, in call order; every step that changes the list appends one entry  *)
(* at the end and leaves the earlier entries where and as they were, a     *)
(* repeated name (or name and value) stays a separate entry, and the       *)
(* length never decreases.                                                 *)
(***************************************************************************)
\* The bytes a recorded call passed: a text argument passes its encoding.
CallName(c) == IF c.ntext THEN RefBytes(c.name) ELSE c.name
CallValue(c) == IF c.vtext THEN RefBytes(c.value) ELSE c.value

C2_ListIsCallHistory ==
    /\ [](/\ Len(headers) = Len(calls)
          /\ \A i \in 1..Len(calls) :
                /\ headers[i].name = CallName(calls[i])
                /\ headers[i].value = CallValue(calls[i]))
    /\ [][/\ Len(headers') >= Len(headers)
          /\ Len(headers') <= Len(headers) + 1
          /\ \A i \in 1..Len(headers) : headers'[i] = headers[i]
          /\ Len(calls') = Len(calls) + 1 => Len(headers') = Len(headers) + 1
         ]_vars

\* add("a","1"); add("ab","1"); add("a","1"): three entries, the first and
\* the third identical.
C2_Witness ==
    /\ Len(headers) = 3
    /\ \A i \in 1..3 : calls[i].op = "add"
    /\ headers[1] = headers[3]
    /\ headers[1].name = <<97>> /\ headers[1].value = <<49>>
    /\ headers[2].name = <<97, 98>>

(***************************************************************************)
(* C3: get(n) on a list with no entry named n, the empty list included,    *)
(* panics; it never returns an empty string or another default.            *)
(***************************************************************************)
C3_GetAbsentPanics ==
    (ret.op = "get" /\ Matches(ret.name) = {}) => ret.outcome = "panic"

\* get of U+00FF on a list whose entries are named "a" and byte 0xff: the
\* name's bytes are c3 bf, no entry matches, the call panicked.
C3_Witness ==
    /\ ret.op = "get" /\ ret.name = <<255>> /\ ret.outcome = "panic"
    /\ Len(headers) = 2
    /\ headers[1].name = <<97>>
    /\ headers[2].name = <<255>>

(***************************************************************************)
(* C4: get(n) panics whenever the first entry named n has a value that is  *)
(* not valid UTF-8, even if a later entry named n holds valid text.        *)
(***************************************************************************)
C4_GetInvalidTextPanics ==
    (ret.op = "get" /\ Matches(ret.name) # {}
        /\ ~IsText(headers[Lowest(ret.name)].value))
    => ret.outcome = "panic"

\* push(b"a", 0xff); add("a","1"); get("a") panicked.
C4_Witness ==
    /\ ret.op = "get" /\ ret.name = <<97>> /\ ret.outcome = "panic"
    /\ Len(headers) = 2
    /\ calls[1].op = "push" /\ headers[1].name = <<97>>
    /\ headers[1].value = <<255>>
    /\ calls[2].op = "add" /\ headers[2].name = <<97>>
    /\ headers[2].value = <<49>>

(***************************************************************************)
(* C9: text round trip.  When the first entry named n was put by           *)
(* add(n, v), get(n) returns a string equal to v; and a byte field built   *)
(* from a text string reads back, as text, as the original string.         *)
(***************************************************************************)
C9_TextRoundTrip ==
    /\ (ret.op = "get" /\ Matches(ret.name) # {}
            /\ calls[Lowest(ret.name)].op = "add")
       => /\ ret.outcome = "ok"
          /\ ret.value = calls[Lowest(ret.name)].value
    /\ \A s \in AllTexts :
          FromUtf8(FromStr(s)) = [ok |-> TRUE, str |-> s]

\* add(e-acute, "e-acute euro") then get(e-acute) returned the two chars.
C9_Witness ==
    /\ ret.op = "get" /\ ret.name = <<233>> /\ ret.outcome = "ok"
    /\ ret.value = <<233, 8364>>
    /\ Len(headers) >= 1 /\ calls[1].op = "add"
    /\ calls[1].name = <<233>> /\ calls[1].value = <<233, 8364>>
    /\ headers[1].value = <<195, 169, 226, 130, 172>>

(***************************************************************************)
(* C5: for every supported source type of the name and of the value and    *)
(* every byte content, Header::new(n, v).name() is exactly the bytes of n  *)
(* and .value() exactly the bytes of v: same length, same bytes, same      *)
(* order, name and value not swapped.                                      *)
(***************************************************************************)
\* The byte content of a source: the bytes themselves, or the text's UTF-8.
Content(src) ==
    IF src.kind \in TextKinds THEN RefBytes(src.data) ELSE src.data

C5_NewKeepsBytes ==
    ret.op = "new" =>
        /\ Len(ret.name) = Len(Content(ret.nsrc))
        /\ \A i \in 1..Len(ret.name) : ret.name[i] = Content(ret.nsrc)[i]
        /\ Len(ret.value) = Len(Content(ret.vsrc))
        /\ \A i \in 1..Len(ret.value) : ret.value[i] = Content(ret.vsrc)[i]

\* Header::new(&[u8; 23], Cow::Borrowed("e-acute euro U+1F600")): the name is
\* the 23 bytes, the value the 9 bytes of the text.
C5_Witness ==
    /\ ret.op = "new"
    /\ ret.nsrc = [kind |-> "Array", data |-> Long23]
    /\ ret.vsrc = [kind |-> "CowStrBorrowed", data |-> <<233, 8364, 128512>>]
    /\ ret.name = Long23
    /\ ret.value = <<195, 169, 226, 130, 172, 240, 159, 152, 128>>

(***************************************************************************)
(* C6: for all byte contents b1, b2 and every pair of conversion paths,    *)
(* the two byte fields compare equal if and only if b1 = b2; equal content *)
(* built through different paths compares equal.                           *)
(***************************************************************************)
C6_PartEqIffSameContent ==
    ret.op = "parteq" => (ret.result <=> Content(ret.a) = Content(ret.b))

\* String U+00FF and &[u8] c3 bf compare equal.
C6_Witness ==
    /\ ret.op = "parteq"
    /\ ret.a = [kind |-> "String", data |-> <<255>>]
    /\ ret.b = [kind |-> "Slice", data |-> <<195, 191>>]
    /\ ret.result = TRUE

(***************************************************************************)
(* C7: two Headers are equal if and only if their names are byte-for-byte  *)
(* equal and their values are byte-for-byte equal; headers that differ in  *)
(* only the name, in only the value, or that have name and value           *)
(* exchanged, are unequal.                                                 *)
(***************************************************************************)
C7_HeaderEqIffBothFields ==
    ret.op = "eq" =>
        (ret.result <=> (/\ CallName(calls[ret.a]) = CallName(calls[ret.b])
                         /\ CallValue(calls[ret.a]) = CallValue(calls[ret.b])))

\* ("a", 0xff) against (0xff, "a"): name and value exchanged, compared
\* unequal.
C7_Witness ==
    /\ ret.op = "eq" /\ ret.result = FALSE
    /\ headers[ret.a].name = <<97>> /\ headers[ret.a].value = <<255>>
    /\ headers[ret.b].name = <<255>> /\ headers[ret.b].value = <<97>>

(***************************************************************************)
(* C8: the Debug rendering of the HeaderPart built from b is b" , then for *)
(* each byte in order the literal char when the byte is in 0x20..0x7e and  *)
(* \x plus exactly two lowercase hex digits otherwise, then a closing " .  *)
(***************************************************************************)
\* "0123456789abcdef"
RefHex == <<48, 49, 50, 51, 52, 53, 54, 55, 56, 57, 97, 98, 99, 100, 101, 102>>

\* What the claim says one byte renders to.
RefPiece(c) ==
    IF c \in 32..126 THEN <<c>>
    ELSE <<92, 120, RefHex[(c \div 16) + 1], RefHex[(c % 16) + 1]>>

RECURSIVE RefRender(_)
RefRender(b) == IF b = <<>> THEN <<>> ELSE RefPiece(Head(b)) \o RefRender(Tail(b))

C8_DebugEscapes ==
    ret.op = "debug" =>
        ret.text = <<98, 34>> \o RefRender(Content(ret.src)) \o <<34>>

\* The bytes 1f 20 7e 7f render as b"\x1f ~\x7f".
C8_Witness ==
    /\ ret.op = "debug"
    /\ ret.src = [kind |-> "Slice", data |-> <<31, 32, 126, 127>>]
    /\ ret.text = <<98, 34, 92, 120, 49, 102, 32, 126, 92, 120, 55, 102, 34>>

(***************************************************************************)
(* C10: once a Header has been constructed, the bytes its name() and       *)
(* value() return never change: in every state reachable by name, value,   *)
(* clone, comparison, Debug formatting, Headers::add and Headers::get,     *)
(* each existing header's name and value are the bytes it was constructed  *)
(* with.                                                                   *)
(***************************************************************************)
C10_HeaderImmutable ==
    /\ [](\A i \in 1..Len(headers) :
            /\ i <= Len(calls)
            /\ HeaderName(headers[i]) = CallName(calls[i])
            /\ HeaderValue(headers[i]) = CallValue(calls[i]))
    /\ [][\A i \in 1..Len(headers) :
            /\ i <= Len(headers')
            /\ HeaderName(headers'[i]) = HeaderName(headers[i])
            /\ HeaderValue(headers'[i]) = HeaderValue(headers[i])
            /\ calls'[i] = calls[i]]_vars

\* A header built from (String U+00FF, &[u8] 0xff), then cloned, compared
\* with its clone, and still holding c3 bf and ff.
C10_Witness ==
    /\ Len(headers) = 2
    /\ calls[1].op = "new" /\ calls[1].ntext /\ ~calls[1].vtext
    /\ calls[2].op = "clone"
    /\ ret.op = "eq" /\ ret.a = 1 /\ ret.b = 2 /\ ret.result = TRUE
    /\ headers[1].name = <<195, 191>> /\ headers[1].value = <<255>>

(***************************************************************************)
(* C11: a byte field built from a borrowed byte slice, fixed-size array or *)
(* text slice holds its own copy of the bytes: after construction,         *)
(* overwriting or releasing the source buffer leaves the bytes observed    *)
(* through Header::name() / Header::value() unchanged.                     *)
(***************************************************************************)
C11_BorrowedSourceCopied ==
    ret.op = "mread" =>
        /\ ret.name = CallName(calls[1])
        /\ ret.value = CallValue(calls[1])

\* Built from the &str U+00FF and the slice ff; the name's buffer was then
\* overwritten and the value's released; name() and value() still read
\* c3 bf and ff.
C11_Witness ==
    /\ ret.op = "mread"
    /\ calls[1].ntext /\ calls[1].name = <<255>> /\ calls[1].value = <<255>>
    /\ mem["sn"].kind = "Str" /\ mem["sn"].live /\ mem["sn"].data = <<122>>
    /\ ~mem["sv"].live
    /\ ret.name = <<195, 191>> /\ ret.value = <<255>>

(***************************************************************************)
(* C12: name matching in Headers::get is byte-exact over the whole name:   *)
(* an entry matches only when the two byte sequences have equal length and *)
(* equal bytes, so a name that differs only in letter case, or is a proper *)
(* prefix or extension of the stored name, does not match, and the lookup  *)
(* is fatal when no other entry matches.                                   *)
(***************************************************************************)
\* a is a proper prefix of b.
ProperPrefix(a, b) == Len(a) < Len(b) /\ \A i \in 1..Len(a) : a[i] = b[i]

\* a and b have the same length and differ only in the case of ASCII letters.
CaseVariant(a, b) ==
    /\ Len(a) = Len(b) /\ a # b
    /\ \A i \in 1..Len(a) :
          \/ a[i] = b[i]
          \/ a[i] \in 65..90 /\ b[i] = a[i] + 32
          \/ b[i] \in 65..90 /\ a[i] = b[i] + 32

\* Stored name a nearly is the looked-up name b.
NearMiss(a, b) ==
    ProperPrefix(a, b) \/ ProperPrefix(b, a) \/ CaseVariant(a, b)

C12_MatchIsByteExact ==
    ret.op = "get" =>
        LET nb == RefBytes(ret.name)
            exact == {i \in 1..Len(headers) :
                        /\ Len(headers[i].name) = Len(nb)
                        /\ \A k \in 1..Len(nb) : headers[i].name[k] = nb[k]}
        IN /\ ret.outcome = "ok" =>
                \E i \in exact : RefBytes(ret.value) = headers[i].value
           /\ (exact = {} /\ \E i \in 1..Len(headers) :
                                NearMiss(headers[i].name, nb))
                => ret.outcome = "panic"

\* The list holds "ab" and "a"; get("A") matched neither and panicked.
C12_Witness ==
    /\ ret.op = "get" /\ ret.name = <<65>> /\ ret.outcome = "panic"
    /\ Len(headers) = 2
    /\ headers[1].name = <<97, 98>> /\ headers[2].name = <<97>>
    /\ IsText(headers[1].value) /\ IsText(headers[2].value)

(***************************************************************************)
(* C13: every conversion into HeaderPart and every call of Header::new is  *)
(* total: for every input of every supported source type, the empty byte   *)
(* sequence, the empty string, arrays of each length 0 through 23 and      *)
(* bytes that are not valid UTF-8 included, construction returns a value   *)
(* and never ends in an error or fatal outcome.                            *)
(***************************************************************************)
\* x is a byte field: a finite sequence of bytes.
IsByteField(x) == \A i \in 1..Len(x) : x[i] \in 0..255

C13_ConstructionTotal ==
    /\ ret.op = "new" => IsByteField(ret.name) /\ IsByteField(ret.value)
    /\ \A n \in 0..MaxArrayLen :
          \E src \in PartSources : src.kind = "Array" /\ Len(src.data) = n
    /\ \A src \in PartSources :
          /\ IsByteField(IntoPart(src))
          /\ Len(IntoPart(src)) = Len(Content(src))

\* Header::new(&[u8; 0], &[0xff][..]) returned a header with the empty name
\* and the one-byte value ff, which is not UTF-8.
C13_Witness ==
    /\ ret.op = "new"
    /\ ret.nsrc = [kind |-> "Array", data |-> <<>>]
    /\ ret.vsrc = [kind |-> "Slice", data |-> <<255>>]
    /\ ret.name = <<>> /\ ret.value = <<255>>

(***************************************************************************)
(* C14: for every pair (n, v) of convertible sources, Header::from((n, v)) *)
(* is equal to Header::new(n, v): the first tuple element becomes the name *)
(* and the second becomes the value.                                       *)
(***************************************************************************)
C14_PairIsNew ==
    ret.op = "pair" =>
        /\ ret.same
        /\ ret.name = Content(ret.nsrc)
        /\ ret.value = Content(ret.vsrc)

\* Header::from(("a", vec![0xff])) has the name "a" and the value ff.
C14_Witness ==
    /\ ret.op = "pair" /\ ret.same
    /\ ret.nsrc = [kind |-> "Str", data |-> <<97>>]
    /\ ret.vsrc = [kind |-> "Vec", data |-> <<255>>]
    /\ ret.name = <<97>> /\ ret.value = <<255>>

(***************************************************************************)
(* C15: when a constructed Header, or clones of it that share its backing  *)
(* bytes, is read by several threads at once through name(), value(),      *)
(* comparison and clone, under every interleaving each reader observes     *)
(* exactly the bytes the header was constructed with, and dropping one     *)
(* clone never changes what the remaining clones observe.                  *)
(***************************************************************************)
C15_SharedReadsStable ==
    /\ \A t \in Threads :
          own[t].st = "held" =>
            /\ mem[own[t].name].live /\ mem[own[t].value].live
            /\ View(mem, own[t].name) = {CallName(calls[1])}
            /\ View(mem, own[t].value) = {CallValue(calls[1])}
    /\ \A u \in Threads :
          own[u].st = "clone_v" =>
            /\ mem[own[u].name].live
            /\ mem[own[own[u].from].value].live
    /\ ret.op = "meq" => ret.result

\* Thread 2 holds a clone, thread 1 has dropped the original completely,
\* and thread 2 then read the bytes of the construction: c3 bf and ff.
C15_Witness ==
    /\ own[1].st = "none" /\ own[2].st = "held"
    /\ mem["hn"].rc = 1 /\ mem["hv"].rc = 1
    /\ ret.op = "mread" /\ ret.thread = 2
    /\ ret.name = <<195, 191>> /\ ret.value = <<255>>
    /\ calls[1].ntext /\ ~calls[1].vtext

(***************************************************************************)
(* C16: lookup results are stable under growth: if get(n) returns v in     *)
(* some state, then after any further add calls (with any names and        *)
(* values, the name n included) get(n) still returns v; and a get call,    *)
(* whether it returns or fails, leaves the list unchanged.                 *)
(***************************************************************************)
C16_GetStableUnderGrowth ==
    [][/\ headers' # headers =>
            \A n \in GetNames :
                LET before == HeadersGet(headers, n) IN
                before.outcome = "ok" =>
                    LET after == HeadersGet(headers', n) IN
                    after.outcome = "ok" /\ after.value = before.value
       /\ ret'.op = "get" => headers' = headers
      ]_vars

\* add(e-acute, "1"); add(e-acute, "e-acute euro"); push(b"a", ff): the list
\* grew by an entry of the same name and get(e-acute) returned "1".
C16_Witness ==
    /\ Len(headers) = 3
    /\ headers[1].name = <<195, 169>> /\ headers[1].value = <<49>>
    /\ headers[2].name = <<195, 169>>
    /\ headers[2].value = <<195, 169, 226, 130, 172>>
    /\ headers[3].name = <<97>> /\ headers[3].value = <<255>>
    /\ ret.op = "get" /\ ret.name = <<233>> /\ ret.outcome = "ok"
    /\ ret.value = <<49>>

(***************************************************************************)
(* C17: the HeaderPart Debug rendering is not injective: the bytes 0x22    *)
(* (double quote) and 0x5c (backslash) are printable and are written       *)
(* literally without escaping, so two different byte sequences can render  *)
(* to the same text: the single byte 0x00 and the four bytes 5c 78 30 30   *)
(* both render as b"\x00".                                                 *)
(***************************************************************************)
C17_DebugNotInjective ==
    /\ (ret.op = "debug" /\ Content(ret.src) \in {<<0>>, <<92, 120, 48, 48>>})
        => ret.text = <<98, 34, 92, 120, 48, 48, 34>>
    /\ (ret.op = "debug" /\ Content(ret.src) = <<0, 10, 128, 34, 92>>)
        => ret.text = <<98, 34, 92, 120, 48, 48, 92, 120, 48, 97,
                        92, 120, 56, 48, 34, 92, 34>>
    /\ HeaderPartDebug(IntoPart([kind |-> "Slice", data |-> <<0>>]))
         = HeaderPartDebug(IntoPart([kind |-> "Slice",
                                     data |-> <<92, 120, 48, 48>>]))

\* The four bytes \ x 0 0 rendered as b"\x00", the rendering of the byte 0.
C17_Witness ==
    /\ ret.op = "debug"
    /\ ret.src = [kind |-> "Vec", data |-> <<92, 120, 48, 48>>]
    /\ ret.text = <<98, 34, 92, 120, 48, 48, 34>>
    /\ HeaderPartDebug(<<0>>) = ret.text

====
